---- MODULE Spec2Model ----
(***************************************************************************)
(* Model of drops/drop.py, the hub client of the "drop" command line       *)
(* tool, and of the local-mode manifest upsert described in spec.md.       *)
(*                                                                         *)
(* Text is a sequence of one-character strings.  A Python value that may   *)
(* be None is a record [set, v]: None is [set |-> FALSE, v |-> <<>>].      *)
(***************************************************************************)
EXTENDS Integers, Sequences, FiniteSets, TLC

VARIABLES env, files, disk, argv, API_KEY, pc, requests, stdout, stderr,
          exitCode, cmd, response, text, extracted, manifest, lastRecord,
          upserts

vars == <<env, files, disk, argv, API_KEY, pc, requests, stdout, stderr,
          exitCode, cmd, response, text, extracted, manifest, lastRecord,
          upserts>>

\* what a run is given, and the state of the other specifications
givenVars == <<env, files, disk, argv>>

remoteVars == <<API_KEY, requests, stdout, stderr, exitCode, cmd, response>>

titleVars == <<text, extracted>>

localVars == <<manifest, lastRecord, upserts>>

\* ------------------------------------------------------------------ bounds
MaxFileLines == 2
MaxEnvLines == 4
MaxTextLen == 7
MaxUpserts == 4

\* ------------------------------------------------------- optional values
None == [set |-> FALSE, v |-> <<>>]

Some(s) == [set |-> TRUE, v |-> s]

\* Python truth value of an optional string
Truthy(o) == o.set /\ o.v # <<>>

\* ------------------------------------------------------- string helpers
WhiteSpace == {" ", "\t", "\n"}

RECURSIVE LStrip(_, _)
LStrip(s, cs) ==
    IF s # <<>> /\ Head(s) \in cs THEN LStrip(Tail(s), cs) ELSE s

RECURSIVE RStrip(_, _)
RStrip(s, cs) ==
    IF s # <<>> /\ s[Len(s)] \in cs THEN RStrip(SubSeq(s, 1, Len(s) - 1), cs) ELSE s

\* str.strip(chars)
StripChars(s, cs) == RStrip(LStrip(s, cs), cs)

\* str.strip()
Strip(s) == StripChars(s, WhiteSpace)

\* str.startswith(p)
StartsWith(s, p) == Len(s) >= Len(p) /\ SubSeq(s, 1, Len(p)) = p

\* index of the first occurrence of character c in s, 0 when there is none
RECURSIVE FindFrom(_, _, _)
FindFrom(s, c, i) ==
    IF i > Len(s) THEN 0 ELSE IF s[i] = c THEN i ELSE FindFrom(s, c, i + 1)

Find(s, c) == FindFrom(s, c, 1)

\* str.splitlines(): pieces between newlines, no empty piece after a final one
RECURSIVE SplitLines(_)
SplitLines(s) ==
    IF s = <<>> THEN <<>>
    ELSE LET i == Find(s, "\n")
         IN  IF i = 0 THEN <<s>>
             ELSE <<SubSeq(s, 1, i - 1)>> \o SplitLines(SubSeq(s, i + 1, Len(s)))

\* str.split(c): pieces between separators, empty pieces kept
RECURSIVE Split(_, _)
Split(s, c) ==
    LET i == Find(s, c)
    IN  IF i = 0 THEN <<s>>
        ELSE <<SubSeq(s, 1, i - 1)>> \o Split(SubSeq(s, i + 1, Len(s)), c)

\* str.split("=", 1)[1]: what follows the first "="
AfterFirstEq(s) == SubSeq(s, Find(s, "=") + 1, Len(s))

\* ------------------------------------------------ credential resolution
KeyPrefix == <<"I","N","G","E","S","T","_","A","P","I","_","K","E","Y","=">>

NumEnvPaths == 3

Quotes == {"\"", "'"}

\* value of one INGEST_API_KEY= line
KeyLineValue(line) == StripChars(Strip(AfterFirstEq(line)), Quotes)

\* inner loop over the lines of one file: the first matching line decides
RECURSIVE ScanLines(_, _, _)
ScanLines(lines, i, key) ==
    IF i > Len(lines) THEN key
    ELSE IF StartsWith(lines[i], KeyPrefix) THEN KeyLineValue(lines[i])
    ELSE ScanLines(lines, i + 1, key)

\* outer loop over the candidate paths, in order
RECURSIVE ScanFiles(_, _, _)
ScanFiles(fs, p, key) ==
    IF p > NumEnvPaths THEN key
    ELSE IF fs[p].set
         THEN LET k == ScanLines(fs[p].v, 1, key)
              IN  IF k # <<>> THEN k ELSE ScanFiles(fs, p + 1, k)
         ELSE ScanFiles(fs, p + 1, key)

\* os.getenv(name, default)
GetEnv(e, name, default) == IF e[name].set THEN e[name].v ELSE default

\* the alias consulted before the primary variable
EnvKey_aliasFirst(e) ==
    IF Truthy(e["INGEST_API_KEY"]) THEN e["INGEST_API_KEY"].v
    ELSE GetEnv(e, "DROP_API_KEY", <<>>)

\* os.getenv("DROP_API_KEY") or os.getenv("INGEST_API_KEY", "")
EnvKey(e) ==
    IF Truthy(e["DROP_API_KEY"]) THEN e["DROP_API_KEY"].v
    ELSE GetEnv(e, "INGEST_API_KEY", <<>>)

ResolveKey(e, fs) ==
    IF EnvKey(e) # <<>> THEN EnvKey(e) ELSE ScanFiles(fs, 1, EnvKey(e))

\* ------------------------------------------------------ title extraction
HeadingMarker == <<"#", " ">>

\* a later heading line overriding an earlier one
RECURSIVE ExtractFrom_lastWins(_, _)
ExtractFrom_lastWins(lines, i) ==
    IF i > Len(lines) THEN None
    ELSE LET stripped == Strip(lines[i])
             later == ExtractFrom_lastWins(lines, i + 1)
         IN  IF later.set THEN later
             ELSE IF StartsWith(stripped, HeadingMarker)
                  THEN Some(Strip(SubSeq(stripped, 3, Len(stripped))))
                  ELSE None

\* the for loop of extract_title, from line i on
RECURSIVE ExtractFrom(_, _)
ExtractFrom(lines, i) ==
    IF i > Len(lines) THEN None
    ELSE LET stripped == Strip(lines[i])
         IN  IF StartsWith(stripped, HeadingMarker)
             THEN Some(Strip(SubSeq(stripped, 3, Len(stripped))))
             ELSE ExtractFrom(lines, i + 1)

extract_title(t) == ExtractFrom(SplitLines(t), 1)

\* ------------------------------------------------------------ file names
\* index of the last occurrence of character c in s, 0 when there is none
RECURSIVE RFindFrom(_, _, _)
RFindFrom(s, c, i) ==
    IF i = 0 THEN 0 ELSE IF s[i] = c THEN i ELSE RFindFrom(s, c, i - 1)

RFind(s, c) == RFindFrom(s, c, Len(s))

\* Path(p).name: the last component of the path
PathName(p) == SubSeq(p, RFind(p, "/") + 1, Len(p))

\* Path(p).stem: the name without its last suffix
Stem(p) ==
    LET name == PathName(p)
        i == RFind(name, ".")
    IN  IF 1 < i /\ i < Len(name) THEN SubSeq(name, 1, i - 1) ELSE name

\* ------------------------------------------------------------- constants
ClaudeCode == <<"c","l","a","u","d","e","-","c","o","d","e">>

Context == <<"c","o","n","t","e","x","t">>

StdinDrop == <<"s","t","d","i","n","-","d","r","o","p">>

DefaultLimit == 20

\* ------------------------------------------------------- argument values
Digits == <<"0","1","2","3","4","5","6","7","8","9">>

IsDigit(c) == \E d \in 1..10 : Digits[d] = c

DigitVal(c) == (CHOOSE d \in 1..10 : Digits[d] = c) - 1

\* int(s) succeeds on a non-empty run of decimal digits
IsInt(s) == s # <<>> /\ \A i \in 1..Len(s) : IsDigit(s[i])

RECURSIVE ParseInt(_)
ParseInt(s) ==
    IF s = <<>> THEN 0 ELSE 10 * ParseInt(SubSeq(s, 1, Len(s) - 1)) + DigitVal(s[Len(s)])

\* str(n) for n >= 0
RECURSIVE IntToStr(_)
IntToStr(n) ==
    IF n < 10 THEN <<Digits[n + 1]>> ELSE IntToStr(n \div 10) \o <<Digits[(n % 10) + 1]>>

\* args.limit after parsing: type=int, default=20
ArgLimit(a) == IF a.limit.set THEN ParseInt(a.limit.v) ELSE DefaultLimit

\* parse_args() rejects the command line (usage error, status 2)
ParseFails(a) == a.limit.set /\ ~IsInt(a.limit.v)

\* ----------------------------------------------------------- hub exchange
\* only statuses from 400 on taken as errors
Is2xx_below400(status) == 200 <= status /\ status < 400

Is2xx(status) == 200 <= status /\ status <= 299

ApiRequest(method, path, id, body, params) ==
    [method |-> method, path |-> path, id |-> id, body |-> body,
     query |-> params, key |-> API_KEY]

\* except HTTPError: print the body to stderr and exit 1
ApiError(resp) ==
    /\ stderr' = Append(stderr, [tag |-> "API error", code |-> resp.status,
                                  val |-> resp.body])
    /\ exitCode' = 1
    /\ UNCHANGED stdout

EmptyDrop ==
    [id |-> None, from |-> None, type |-> None, cdn_url |-> None,
     content |-> None, timestamp |-> None]

\* result.get("drop", {})
GetDrop(json) == IF json.hasDrop THEN json.drop ELSE EmptyDrop

\* result.get("drops", [])
GetDrops(json) == IF json.hasDrops THEN json.drops ELSE <<>>

\* s[:n]
Prefix(s, n) == SubSeq(s, 1, IF Len(s) < n THEN Len(s) ELSE n)

\* ------------------------------------------------------------- cmd_drop
DropSender(a) == IF ~Truthy(a.sender) THEN ClaudeCode ELSE a.sender.v

\* another default type
DropType_checkpoint(a) ==
    IF ~Truthy(a.drop_type) THEN <<"c","h","e","c","k","p","o","i","n","t">>
    ELSE a.drop_type.v

DropType(a) == IF ~Truthy(a.drop_type) THEN Context ELSE a.drop_type.v

DerivedTitle(a) == IF ~a.stdin THEN Stem(a.file.v) ELSE StdinDrop

\* the heading consulted before the explicit title
DropTitle_headingFirst(a, content) ==
    IF Truthy(extract_title(content)) THEN extract_title(content).v
    ELSE IF Truthy(a.title) THEN a.title.v
    ELSE DerivedTitle(a)

\* args.title or extract_title(content) or <derived default>
DropTitle(a, content) ==
    IF Truthy(a.title) THEN a.title.v
    ELSE IF Truthy(extract_title(content)) THEN extract_title(content).v
    ELSE DerivedTitle(a)

DropTags(a) == IF Truthy(a.tags) THEN Split(a.tags.v, ",") ELSE <<>>

DropBody(a, content) ==
    [from_agent |-> DropSender(a), title |-> DropTitle(a, content),
     content |-> content, drop_type |-> DropType(a), tags |-> DropTags(a)]

\* presence of the field tested instead of its truth value
CdnLine_present(drop) ==
    IF drop.cdn_url.set THEN [tag |-> "cdn", val |-> drop.cdn_url]
    ELSE [tag |-> "stored without CDN", val |-> None]

CdnLine(drop) ==
    IF Truthy(drop.cdn_url) THEN [tag |-> "cdn", val |-> drop.cdn_url]
    ELSE [tag |-> "stored without CDN", val |-> None]

DropSummary(drop) ==
    << [tag |-> "Dropped:", val |-> drop.id],
       [tag |-> "from:", val |-> drop.from],
       [tag |-> "type:", val |-> drop.type],
       CdnLine(drop) >>

\* ------------------------------------------------------------- cmd_list
ListParams(a) ==
    (IF Truthy(a.sender) THEN << <<"from_agent", a.sender.v>> >> ELSE <<>>)
    \o (IF Truthy(a.drop_type) THEN << <<"drop_type", a.drop_type.v>> >> ELSE <<>>)
    \o (IF Truthy(a.since) THEN << <<"since", a.since.v>> >> ELSE <<>>)
    \o (IF ArgLimit(a) # 0 THEN << <<"limit", IntToStr(ArgLimit(a))>> >> ELSE <<>>)

ListItem(d) ==
    << [tag |-> "item", val |-> IF d.id.set THEN d.id.v ELSE <<"?">>,
        type |-> IF d.type.set THEN d.type.v ELSE <<"?">>, from |-> d.from,
        where |-> IF Truthy(d.cdn_url) THEN "cdn" ELSE "git",
        time |-> Prefix(IF d.timestamp.set THEN d.timestamp.v ELSE <<>>, 19)] >>
    \o (IF Truthy(d.cdn_url) THEN << [tag |-> "url", val |-> d.cdn_url] >> ELSE <<>>)

RECURSIVE ListItems(_)
ListItems(ds) == IF ds = <<>> THEN <<>> ELSE ListItem(Head(ds)) \o ListItems(Tail(ds))

ListOutput(drops) ==
    IF drops = <<>> THEN << [tag |-> "No drops found.", val |-> None] >>
    ELSE << [tag |-> "count", n |-> Len(drops)] >> \o ListItems(drops)

\* ------------------------------------------------------------- cmd_read
ReadOutput(drop) ==
    IF Truthy(drop.content) THEN << [tag |-> "content", val |-> drop.content] >>
    ELSE << [tag |-> "json", drop |-> drop] >>

\* ------------------------------------------------------------ inputs
NoteMd == <<"n","o","t","e",".","m","d">>

HelloText == <<"#"," ","H","e","l","l","o","\n","b","o","d","y">>

\* the characters of generated texts
TextChars == {"#", " ", "a", "\n"}

RECURSIVE TextsUpTo(_)
TextsUpTo(n) ==
    IF n = 0 THEN {<<>>}
    ELSE LET shorter == TextsUpTo(n - 1)
         IN  shorter \cup {Append(t, c) : t \in {u \in shorter : Len(u) = n - 1},
                                          c \in TextChars}

\* contents of the dropped file or of stdin
ContentSamples ==
    { <<>>,
      <<"b","o","d","y">>,
      HelloText,
      <<"i","n","\n"," ","#"," ","F","o","o"," ","\n","#"," ","B","a","r">>,
      <<"#","x","\n","#","#"," ","s","u","b","\n","#"," ">> }

StrSamples(s) == {None, Some(<<>>), Some(s)}

Argvs ==
    [ help : BOOLEAN,
      limit : {None, Some(<<"5">>), Some(<<"0">>), Some(<<"x">>)},
      drop_id : StrSamples(<<"d","1">>),
      list : BOOLEAN,
      file : StrSamples(NoteMd),
      stdin : BOOLEAN,
      sender : StrSamples(<<"o","c">>),
      drop_type : StrSamples(<<"c","p">>),
      title : StrSamples(<<"T">>),
      tags : {None, Some(<<"a",",","b">>)},
      since : {None} ]

Url == <<"h","t","t","p","s",":","/","/","c","d","n","/","d","1">>

SampleDrop(cdn, content) ==
    [id |-> Some(<<"d","1">>), from |-> Some(ClaudeCode), type |-> Some(Context),
     cdn_url |-> cdn, content |-> content,
     timestamp |-> Some(<<"2","0","2","6">>)]

SampleDrops ==
    { SampleDrop(None, Some(<<"b","o","d","y">>)),
      SampleDrop(Some(<<>>), None),
      SampleDrop(Some(Url), Some(<<>>)),
      EmptyDrop }

Json(hasDrop, drop, hasDrops, drops) ==
    [hasDrop |-> hasDrop, drop |-> drop, hasDrops |-> hasDrops, drops |-> drops]

SampleJson ==
    { Json(FALSE, EmptyDrop, FALSE, <<>>), Json(FALSE, EmptyDrop, TRUE, <<>>),
      Json(FALSE, EmptyDrop, TRUE,
           << SampleDrop(None, None), SampleDrop(Some(Url), None) >>) }
    \cup { Json(TRUE, d, FALSE, <<>>) : d \in SampleDrops }

\* what the hub may answer to one request
HubResponses ==
    { [status |-> st, body |-> <<>>, json |-> j] : st \in {200, 201}, j \in SampleJson }
    \cup { [status |-> st, body |-> b, json |-> Json(FALSE, EmptyDrop, FALSE, <<>>)] :
             st \in {304, 404, 500}, b \in {<<>>, <<"n","o">>} }

Unset == [n \in {"DROP_API_KEY", "INGEST_API_KEY"} |-> None]

EnvOf(d, i) == [n \in {"DROP_API_KEY", "INGEST_API_KEY"} |->
                  IF n = "DROP_API_KEY" THEN d ELSE i]

Envs == {EnvOf(d, i) : d \in StrSamples(<<"d">>), i \in StrSamples(<<"i">>)}

\* lines of a candidate config file
EnvLines ==
    { KeyPrefix \o <<" ","\"","k","\""," ">>,
      KeyPrefix \o <<"j","=","1">>,
      KeyPrefix \o <<"'","'">>,
      <<" ">> \o KeyPrefix \o <<"z">> }

RECURSIVE SeqsUpTo(_, _)
SeqsUpTo(S, n) ==
    IF n = 0 THEN {<<>>}
    ELSE LET shorter == SeqsUpTo(S, n - 1)
         IN  shorter \cup {Append(t, c) : t \in {u \in shorter : Len(u) = n - 1}, c \in S}

EnvFiles == {None} \cup {Some(ls) : ls \in SeqsUpTo(EnvLines, MaxFileLines)}

NoFiles == [p \in 1..NumEnvPaths |-> None]

TotalLines(fs) == Len(fs[1].v) + Len(fs[2].v) + Len(fs[3].v)

FileSets == {fs \in [1..NumEnvPaths -> EnvFiles] : TotalLines(fs) <= MaxEnvLines}

\* ------------------------------------------------------------- actions
Idle ==
    /\ text = <<>> /\ extracted = None
    /\ manifest = <<>> /\ lastRecord = None /\ upserts = 0

Fresh ==
    /\ requests = <<>> /\ stdout = <<>> /\ stderr = <<>>
    /\ exitCode = -1 /\ cmd = "none" /\ API_KEY = <<>> /\ response = None

\* module level, lines 29-45: resolve the key once, at import
LoadApiKey ==
    /\ pc = "import"
    /\ API_KEY' = ResolveKey(env, files)
    /\ pc' = "main"
    /\ UNCHANGED <<givenVars, requests, stdout, stderr, exitCode, cmd, response, titleVars,
                   localVars>>

Finish(code) == exitCode' = code /\ pc' = "done"

\* --list tested before --read
Select_listFirst(a) ==
    IF a.list THEN "list"
    ELSE IF Truthy(a.drop_id) THEN "read"
    ELSE IF Truthy(a.file) \/ a.stdin THEN "drop"
    ELSE "help"

\* the if/elif chain of main
Select(a) ==
    IF Truthy(a.drop_id) THEN "read"
    ELSE IF a.list THEN "list"
    ELSE IF Truthy(a.file) \/ a.stdin THEN "drop"
    ELSE "help"

\* the key check left out
KeyMissing_skipped(key) == FALSE

\* not API_KEY
KeyMissing(key) == key = <<>>

\* main(): parse the command line, check the key, dispatch
Main ==
    /\ pc = "main"
    /\ \/ /\ argv.help
          /\ stdout' = Append(stdout, [tag |-> "help", val |-> None])
          /\ Finish(0)
          /\ UNCHANGED <<stderr, cmd>>
       \/ /\ ParseFails(argv)
          /\ stderr' = Append(stderr, [tag |-> "usage error", val |-> argv.limit])
          /\ Finish(2)
          /\ UNCHANGED <<stdout, cmd>>
       \/ /\ ~argv.help /\ ~ParseFails(argv)
          /\ IF KeyMissing(API_KEY)
             THEN /\ stderr' = stderr \o << [tag |-> "No API key found.", val |-> None],
                                            [tag |-> "or create a .env file", val |-> None] >>
                  /\ Finish(1)
                  /\ UNCHANGED <<stdout, cmd>>
             ELSE /\ cmd' = Select(argv)
                  /\ IF Select(argv) = "help"
                     THEN /\ stdout' = Append(stdout, [tag |-> "help", val |-> None])
                          /\ Finish(0)
                     ELSE /\ pc' = Select(argv)
                          /\ UNCHANGED <<stdout, exitCode>>
                  /\ UNCHANGED stderr
    /\ UNCHANGED <<givenVars, API_KEY, requests, response, titleVars, localVars>>

DropOutput(json) == DropSummary(GetDrop(json))

ListResult(json) == ListOutput(GetDrops(json))

ReadResult(json) == ReadOutput(GetDrop(json))

\* what the calling command prints from the result of api_request
Output(caller, json) ==
    CASE caller = "drop" -> DropOutput(json)
      [] caller = "list" -> ListResult(json)
      [] caller = "read" -> ReadResult(json)

\* one call of api_request and what its caller prints from the result
Exchange(req, caller) ==
    /\ requests' = Append(requests, req)
    /\ \E resp \in HubResponses :
          /\ response' = Some(resp)
          /\ IF Is2xx(resp.status)
             THEN /\ stdout' = stdout \o Output(caller, resp.json)
                  /\ exitCode' = 0
                  /\ UNCHANGED stderr
             ELSE ApiError(resp)
    /\ pc' = "done"

\* the existence check left out
FileMissing_unchecked(a, d) == FALSE

\* not args.stdin and not Path(args.file).exists()
FileMissing(a, d) == ~a.stdin /\ a.file.v \notin d

cmd_drop ==
    /\ pc = "drop"
    /\ IF FileMissing(argv, disk)
       THEN /\ stderr' = Append(stderr, [tag |-> "File not found", val |-> argv.file])
            /\ Finish(1)
            /\ UNCHANGED <<requests, stdout, response>>
       ELSE \E content \in ContentSamples :
               Exchange(ApiRequest("POST", "/api/agent-drops", None,
                                   Some(DropBody(argv, content)), <<>>),
                        "drop")
    /\ UNCHANGED <<givenVars, API_KEY, cmd, titleVars, localVars>>

cmd_list ==
    /\ pc = "list"
    /\ Exchange(ApiRequest("GET", "/api/agent-drops", None, None, ListParams(argv)),
                "list")
    /\ UNCHANGED <<givenVars, API_KEY, cmd, titleVars, localVars>>

cmd_read ==
    /\ pc = "read"
    /\ Exchange(ApiRequest("GET", "/api/agent-drops/", argv.drop_id, None, <<>>),
                "read")
    /\ UNCHANGED <<givenVars, API_KEY, cmd, titleVars, localVars>>

\* ------------------------------------------------------ the remote client
\* environments and config files of the runs of the whole client
Setups ==
    { <<Unset, NoFiles>>,
      <<EnvOf(Some(<<"e">>), None), NoFiles>>,
      <<EnvOf(Some(<<>>), None),
        [NoFiles EXCEPT ![2] = Some(<< KeyPrefix \o <<"'","'">> >>)]>>,
      <<Unset, [NoFiles EXCEPT ![3] = Some(<< KeyPrefix \o <<"j","=","1">> >>)]>> }

Init ==
    /\ \E su \in Setups : env = su[1] /\ files = su[2]
    /\ disk \in SUBSET {NoteMd}
    /\ argv \in Argvs
    /\ pc = "import"
    /\ Fresh
    /\ Idle

Next == LoadApiKey \/ Main \/ cmd_read \/ cmd_list \/ cmd_drop

Spec == Init /\ [][Next]_vars

\* ------------------------------------------- credential resolution alone
NoArgs ==
    [help |-> FALSE, limit |-> None, drop_id |-> None, list |-> FALSE,
     file |-> None, stdin |-> FALSE, sender |-> None, drop_type |-> None,
     title |-> None, tags |-> None, since |-> None]

InitKey ==
    /\ env \in Envs
    /\ files \in FileSets
    /\ disk = {}
    /\ argv = NoArgs
    /\ pc = "import"
    /\ Fresh
    /\ Idle

SpecKey == InitKey /\ [][LoadApiKey]_vars

\* ------------------------------------------------ title extraction alone
ExtractTitle ==
    /\ pc = "title"
    /\ extracted' = extract_title(text)
    /\ pc' = "done"
    /\ UNCHANGED <<givenVars, remoteVars, text, localVars>>

InitTitle ==
    /\ text \in TextsUpTo(MaxTextLen)
    /\ extracted = None
    /\ env = Unset /\ files = NoFiles /\ disk = {} /\ argv = NoArgs
    /\ pc = "title"
    /\ Fresh
    /\ manifest = <<>> /\ lastRecord = None /\ upserts = 0

SpecTitle == InitTitle /\ [][ExtractTitle]_vars

\* ------------------------------------------- local mode: manifest upsert
RecordIds == {"checkpoint", "note", "plan"}

\* the record appended without removing its predecessor
upsert_appendOnly(m, record) == Append(m, record)

\* remove any record sharing the id, then append the record
upsert(m, record) == Append(SelectSeq(m, LAMBDA r : r.id # record.id), record)

\* a local drop: best-effort upload, then upsert into the manifest
DropLocal ==
    /\ pc = "local"
    /\ upserts < MaxUpserts
    /\ \E id \in RecordIds, uploaded \in BOOLEAN :
          LET record == [id |-> id, timestamp |-> upserts + 1,
                         cdn_url |-> IF uploaded THEN Some(Url) ELSE None]
          IN  /\ manifest' = upsert(manifest, record)
              /\ lastRecord' = Some(record)
    /\ upserts' = upserts + 1
    /\ UNCHANGED <<givenVars, remoteVars, titleVars, pc>>

\* manifests on disk before the first drop of a session
StoredManifests ==
    { <<>>,
      << [id |-> "note", timestamp |-> 0, cdn_url |-> None] >>,
      << [id |-> "plan", timestamp |-> 0, cdn_url |-> Some(Url)],
         [id |-> "checkpoint", timestamp |-> 0, cdn_url |-> None] >> }

InitLocal ==
    /\ manifest \in StoredManifests
    /\ lastRecord = None
    /\ upserts = 0
    /\ env = Unset /\ files = NoFiles /\ disk = {} /\ argv = NoArgs
    /\ pc = "local"
    /\ Fresh
    /\ text = <<>> /\ extracted = None

SpecLocal == InitLocal /\ [][DropLocal]_vars

\* ================================================================ claims
Min(S) == CHOOSE x \in S : \A y \in S : x <= y

Done == pc = "done"

ParsedOk == ~argv.help /\ ~ParseFails(argv)

\* the POST requests of the run
Posts == {i \in 1..Len(requests) : requests[i].method = "POST"}

\* what one config file yields: the value of its first INGEST_API_KEY= line
KeyLines(f) == {i \in 1..Len(f.v) : StartsWith(f.v[i], KeyPrefix)}

FileYield(f) ==
    IF ~f.set \/ KeyLines(f) = {} THEN <<>> ELSE KeyLineValue(f.v[Min(KeyLines(f))])

YieldingFiles == {p \in 1..NumEnvPaths : FileYield(files[p]) # <<>>}

NoKeyResolvable ==
    /\ ~env["DROP_API_KEY"].set \/ env["DROP_API_KEY"].v = <<>>
    /\ ~env["INGEST_API_KEY"].set \/ env["INGEST_API_KEY"].v = <<>>
    /\ YieldingFiles = {}

\* ---------------------------------------------------------------------- C1
\* C1, as stated: when no API key can be resolved, every run of main, whatever
\* its flags, ends with exit status 1 and has sent no hub request.
C1_Stated ==
    (NoKeyResolvable /\ pc \notin {"import", "main"})
        => pc = "done" /\ exitCode = 1 /\ requests = <<>>

\* C1, amended: when no API key can be resolved, no run of main sends a hub
\* request or reaches a command; a run whose command line the parser accepts
\* (no --help, no usage error) ends with exit status 1 and the missing-key
\* diagnostic; the other runs end inside the parser, with status 0 for --help
\* and 2 for a usage error.
C1_NoKeyNoRequest ==
    (NoKeyResolvable /\ pc \notin {"import", "main"})
        => /\ pc = "done" /\ requests = <<>> /\ cmd = "none" /\ ~response.set
           /\ ParsedOk => /\ exitCode = 1
                          /\ stdout = <<>>
                          /\ Len(stderr) = 2
                          /\ stderr[1].tag = "No API key found."
           /\ exitCode = 1 \/ (argv.help /\ exitCode = 0)
                           \/ (ParseFails(argv) /\ exitCode = 2)

C1_Witness ==
    /\ NoKeyResolvable /\ Done /\ exitCode = 1 /\ requests = <<>>
    /\ files[2].set /\ env["DROP_API_KEY"].set
    /\ argv.list /\ Truthy(argv.drop_id) /\ Truthy(argv.file) /\ argv.stdin

Loaded == pc = "main"

DropVar == env["DROP_API_KEY"]

IngestVar == env["INGEST_API_KEY"]

FromFiles == IF YieldingFiles = {} THEN <<>> ELSE FileYield(files[Min(YieldingFiles)])

\* C3, as stated: with both variables set the value of DROP_API_KEY is the
\* key, with only INGEST_API_KEY set its value is, with neither set the key
\* comes from the first candidate file that yields a non-empty value.
C3_Stated ==
    Loaded => /\ (DropVar.set /\ IngestVar.set) => API_KEY = DropVar.v
              /\ (~DropVar.set /\ IngestVar.set) => API_KEY = IngestVar.v
              /\ (~DropVar.set /\ ~IngestVar.set) => API_KEY = FromFiles

\* C3, amended: a variable counts only when its value is non-empty.  With
\* DROP_API_KEY non-empty its value is the key; otherwise with INGEST_API_KEY
\* non-empty its value is; with neither non-empty the key is what the first
\* candidate file, in scan order, that exists and yields a non-empty value
\* yields (and is empty when there is none); a config file never overrides a
\* key obtained from the environment.
C3_KeyPrecedence ==
    Loaded => /\ Truthy(DropVar) => API_KEY = DropVar.v
              /\ (~Truthy(DropVar) /\ Truthy(IngestVar)) => API_KEY = IngestVar.v
              /\ (~Truthy(DropVar) /\ ~Truthy(IngestVar)) => API_KEY = FromFiles
              /\ (Truthy(DropVar) \/ Truthy(IngestVar))
                    => API_KEY \in {DropVar.v, IngestVar.v}

C3_Witness ==
    /\ Loaded /\ DropVar = Some(<<>>) /\ ~IngestVar.set
    /\ files[1].set /\ Len(files[1].v) = 2 /\ FileYield(files[1]) = <<>>
    /\ FileYield(files[2]) = <<"k">> /\ FileYield(files[3]) = <<"j","=","1">>
    /\ API_KEY = <<"k">>

\* ---------------------------------------------------------------------- C4
HeadingOf(content) == extract_title(content)

Fallback == IF argv.stdin THEN StdinDrop ELSE <<"n","o","t","e">>

\* C4, as stated: an explicit title argument takes precedence over the
\* extracted heading for every explicit title value and every content.
C4_Stated ==
    \A i \in Posts : argv.title.set => requests[i].body.v.title = argv.title.v

\* C4, amended: the title sent is the explicit --title argument when it is
\* given and non-empty, for every content; otherwise (no --title, or an empty
\* one) the heading extracted from the content when there is one; otherwise
\* the derived default, the file stem for a file argument and 'stdin-drop'
\* for --stdin.
C4_TitlePrecedence ==
    \A i \in Posts :
        LET body == requests[i].body.v
            heading == HeadingOf(body.content)
        IN  /\ (argv.title.set /\ argv.title.v # <<>>) => body.title = argv.title.v
            /\ (~(argv.title.set /\ argv.title.v # <<>>) /\ heading.set)
                  => body.title = heading.v
            /\ (~(argv.title.set /\ argv.title.v # <<>>) /\ ~heading.set)
                  => body.title = Fallback
            /\ heading.set => heading.v # <<>>

C4_Witness ==
    \E i \in Posts :
        /\ argv.title = Some(<<"T">>)
        /\ HeadingOf(requests[i].body.v.content) = Some(<<"F","o","o">>)
        /\ requests[i].body.v.title = <<"T">>

\* ---------------------------------------------------------------------- C5
IsHeadingLine(l) == StartsWith(Strip(l), HeadingMarker)

HeadingLines(t) == {i \in 1..Len(SplitLines(t)) : IsHeadingLine(SplitLines(t)[i])}

AfterMarker(l) == SubSeq(Strip(l), Len(HeadingMarker) + 1, Len(Strip(l)))

\* C5: extract_title returns the (trimmed) text that follows the marker on
\* the first line whose trimmed form starts with '# ', whatever later heading
\* lines say, and None when no line has that form.
C5_FirstHeading ==
    Done => IF HeadingLines(text) = {}
            THEN extracted = None
            ELSE extracted =
                   Some(Strip(AfterMarker(SplitLines(text)[Min(HeadingLines(text))])))

C5_Witness ==
    /\ Done /\ text = <<"#"," ","a","\n","#"," ","#">>
    /\ Cardinality(HeadingLines(text)) = 2
    /\ extracted = Some(<<"a">>)

\* ---------------------------------------------------------------------- C6
MissingFileDrop == cmd = "drop" /\ ~argv.stdin /\ argv.file.v \notin disk

\* C6: a drop of a file argument (no --stdin) whose path does not exist ends
\* with a 'File not found' diagnostic on the error stream and exit status 1,
\* and sends no POST; and every run that reports no error ends with status 0.
C6_MissingFile ==
    Done => /\ MissingFileDrop => /\ exitCode = 1
                                  /\ Len(stderr) = 1
                                  /\ stderr[1].tag = "File not found"
                                  /\ stderr[1].val = argv.file
                                  /\ requests = <<>> /\ stdout = <<>>
            /\ stderr = <<>> => exitCode = 0

C6_Witness ==
    /\ Done /\ MissingFileDrop /\ argv.file = Some(NoteMd) /\ disk = {}
    /\ exitCode = 1 /\ requests = <<>>

\* ---------------------------------------------------------------------- C7
Selected ==
    IF argv.drop_id.set /\ argv.drop_id.v # <<>> THEN "read"
    ELSE IF argv.list THEN "list"
    ELSE IF (argv.file.set /\ argv.file.v # <<>>) \/ argv.stdin THEN "drop"
    ELSE "help"

\* C7, as stated: in any single run of main exactly one of read, list, drop
\* or help is selected and at most one hub request is issued.
C7_Stated ==
    Done => cmd \in {"read", "list", "drop", "help"} /\ Len(requests) <= 1

\* C7, amended: a run that gets past argument parsing and the key check
\* selects exactly one of read, list, drop or help: read when --read has a
\* non-empty id, else list when --list is given, else drop when a non-empty
\* file argument or --stdin is given, else help; read and list issue exactly
\* one request, drop issues one unless its file is missing, help issues none,
\* and no request is repeated when it fails.  A run that ends in argument
\* parsing or at the key check selects nothing and issues no request.
C7_OneExchange ==
    /\ Len(requests) <= 1
    /\ Done =>
         IF ParsedOk /\ API_KEY # <<>>
         THEN /\ cmd = Selected
              /\ cmd \in {"read", "list"} => Len(requests) = 1
              /\ cmd = "drop" => Len(requests) = IF MissingFileDrop THEN 0 ELSE 1
              /\ cmd = "help" => requests = <<>>
              /\ requests # <<>> => response.set
         ELSE cmd = "none" /\ requests = <<>>

C7_Witness ==
    /\ Done /\ Truthy(argv.drop_id) /\ argv.list /\ Truthy(argv.file) /\ argv.stdin
    /\ cmd = "read" /\ Len(requests) = 1 /\ requests[1].method = "GET"
    /\ response.set /\ response.v.status = 500 /\ exitCode = 1

\* ---------------------------------------------------------------------- C8
NoCdnUrl(json) ==
    \/ ~json.hasDrop
    \/ ~json.drop.cdn_url.set
    \/ json.drop.cdn_url.v = <<>>

\* C8: a successful create response whose drop carries no cdn_url, or an
\* empty one, still makes cmd_drop print the 'Dropped:' summary with the
\* 'stored without CDN' notice and end with exit status 0, never with an
\* error.
C8_NoCdnStillSuccess ==
    (Done /\ cmd = "drop" /\ response.set
       /\ response.v.status >= 200 /\ response.v.status <= 299
       /\ NoCdnUrl(response.v.json))
        => /\ exitCode = 0 /\ stderr = <<>>
           /\ Len(stdout) = 4
           /\ stdout[1].tag = "Dropped:"
           /\ stdout[4].tag = "stored without CDN"

C8_Witness ==
    /\ Done /\ cmd = "drop" /\ response.set /\ response.v.status = 201
    /\ response.v.json.hasDrop /\ response.v.json.drop.cdn_url = Some(<<>>)
    /\ stdout[1] = [tag |-> "Dropped:", val |-> Some(<<"d","1">>)]
    /\ stdout[4].tag = "stored without CDN" /\ exitCode = 0

\* ---------------------------------------------------------------------- C9
\* C9, as stated: an unset --from or --type is replaced by its default and a
\* specified one is sent unchanged.
C9_Stated ==
    \A i \in Posts :
        LET body == requests[i].body.v
        IN  /\ ~argv.sender.set => body.from_agent = ClaudeCode
            /\ ~argv.drop_type.set => body.drop_type = Context
            /\ argv.sender.set => body.from_agent = argv.sender.v
            /\ argv.drop_type.set => body.drop_type = argv.drop_type.v

NonEmpty(o) == o.set /\ o.v # <<>>

\* C9, amended: with --from unset or empty the create request has from_agent
\* 'claude-code', with --type unset or empty it has drop_type 'context', and a
\* non-empty sender or type is sent unchanged; for file note.md containing
\* '# Hello' then 'body', with sender, type and title unset, the body has
\* title 'Hello', from_agent 'claude-code' and drop_type 'context'.
C9_Defaults ==
    \A i \in Posts :
        LET body == requests[i].body.v
        IN  /\ ~NonEmpty(argv.sender) => body.from_agent = ClaudeCode
            /\ ~NonEmpty(argv.drop_type) => body.drop_type = Context
            /\ NonEmpty(argv.sender) => body.from_agent = argv.sender.v
            /\ NonEmpty(argv.drop_type) => body.drop_type = argv.drop_type.v
            /\ (argv.file = Some(NoteMd) /\ ~argv.stdin /\ body.content = HelloText
                  /\ ~argv.sender.set /\ ~argv.drop_type.set /\ ~argv.title.set)
                 => /\ body.title = <<"H","e","l","l","o">>
                    /\ body.from_agent = <<"c","l","a","u","d","e","-","c","o","d","e">>
                    /\ body.drop_type = <<"c","o","n","t","e","x","t">>

C9_Witness ==
    \E i \in Posts :
        /\ argv.file = Some(NoteMd) /\ ~argv.stdin
        /\ ~argv.sender.set /\ ~argv.drop_type.set /\ ~argv.title.set
        /\ requests[i].body.v.content = HelloText
        /\ requests[i].body.v.title = <<"H","e","l","l","o">>
        /\ requests[i].body.v.drop_type = Context

\* --------------------------------------------------------------------- C10
\* C10: starting from an id-unique (or empty) manifest, after any sequence of
\* upserts the manifest holds no two records with the same id, and the record
\* upserted last is its final element.
C10_UniqueIds ==
    /\ \A i, j \in 1..Len(manifest) : manifest[i].id = manifest[j].id => i = j
    /\ lastRecord.set => /\ manifest # <<>>
                         /\ manifest[Len(manifest)] = lastRecord.v

C10_Witness ==
    /\ upserts = 3 /\ Len(manifest) = 2
    /\ manifest[2].id = "checkpoint" /\ manifest[2].timestamp = 3
    /\ manifest[1].id = "plan" /\ manifest[1].timestamp = 0

====
